---- MODULE Spec2Model ----
(***************************************************************************)
(* A model of jellycodec.py: the codec resolver (get_video_codec), the     *)
(* aggregator (analyze_codecs), the report renderer (print_results,        *)
(* save_results), the file list exporter (list_files_by_codec,             *)
(* save_file_list) and the catalog client (test_connection, get_all_items) *)
(* of JellyfinCodecAnalyzer, main and interactive_mode; and of             *)
(* analyze_codecs of jellyfin_codec_analyzer.py.                           *)
(*                                                                         *)
(* Specifications:                                                         *)
(*   Spec           the operations called in any order on fetched items    *)
(*   SpecResolver   get_video_codec on one item                            *)
(*   SpecMain       main in batch mode and with -i (interactive_mode)      *)
(*   SpecRepeat     Spec with each call possibly made twice in a row       *)
(*   SpecAnalyzers  the two implementations of analyze_codecs side by side *)
(*   SpecFetch      get_all_items called repeatedly on one analyzer        *)
(*                                                                         *)
(* Python values are modelled as follows.                                  *)
(*   dict        a function whose DOMAIN is the set of keys present        *)
(*   d.get(k,x)  dict_get(d, k, x)                                         *)
(*   JSON value  [t |-> "null"], [t |-> "str", v |-> s],                   *)
(*               [t |-> "list", v |-> <<...>>] for the fields that the     *)
(*               server may send as null (MediaStreams, Codec)             *)
(*   str         a TLA+ string; CodePoints gives its code points, on which *)
(*               upper() and the ordering of sorted() are computed         *)
(*   ordered dict (Counter, codec_groups): a sequence of [key, val]        *)
(*               records in insertion order                                *)
(*   exception   the field raised of a result, "none" when the call        *)
(*               returned                                                  *)
(*   text        a sequence of lines, one record [fmt, args] per line:     *)
(*               fmt is the f-string template, args its values as strings  *)
(***************************************************************************)
EXTENDS Integers, Sequences, FiniteSets, TLC

\* Longest item sequence the catalog returns.
MaxItems == 3
\* Longest MediaStreams sequence of the items the resolver is probed with.
MaxStreams == 2

(***************************************************************************)
(* Strings                                                                 *)
(***************************************************************************)
CodePoints ==
    "h264" :> <<104, 50, 54, 52>> @@
    "H264" :> <<72, 50, 54, 52>> @@
    "hevc" :> <<104, 101, 118, 99>> @@
    "HEVC" :> <<72, 69, 86, 67>> @@
    "h265" :> <<104, 50, 54, 53>> @@
    "H265" :> <<72, 50, 54, 53>> @@
    "vp9" :> <<118, 112, 57>> @@
    "VP9" :> <<86, 80, 57>> @@
    "vp8" :> <<118, 112, 56>> @@
    "VP8" :> <<86, 80, 56>> @@
    "av1" :> <<97, 118, 49>> @@
    "AV1" :> <<65, 86, 49>> @@
    "mpeg4" :> <<109, 112, 101, 103, 52>> @@
    "MPEG4" :> <<77, 80, 69, 71, 52>> @@
    "mpeg2video" :> <<109, 112, 101, 103, 50, 118, 105, 100, 101, 111>> @@
    "MPEG2VIDEO" :> <<77, 80, 69, 71, 50, 86, 73, 68, 69, 79>> @@
    "vc1" :> <<118, 99, 49>> @@
    "VC1" :> <<86, 67, 49>> @@
    "wmv3" :> <<119, 109, 118, 51>> @@
    "WMV3" :> <<87, 77, 86, 51>> @@
    "prores" :> <<112, 114, 111, 114, 101, 115>> @@
    "PRORES" :> <<80, 82, 79, 82, 69, 83>> @@
    "unknown" :> <<117, 110, 107, 110, 111, 119, 110>> @@
    "Unknown" :> <<85, 110, 107, 110, 111, 119, 110>> @@
    "UNKNOWN" :> <<85, 78, 75, 78, 79, 87, 78>> @@
    "aac" :> <<97, 97, 99>> @@
    "AAC" :> <<65, 65, 67>> @@
    "AVC (H.264)" :> <<65, 86, 67, 32, 40, 72, 46, 50, 54, 52, 41>> @@
    "HEVC (H.265)" :> <<72, 69, 86, 67, 32, 40, 72, 46, 50, 54, 53, 41>> @@
    "MPEG-4" :> <<77, 80, 69, 71, 45, 52>> @@
    "MPEG-2" :> <<77, 80, 69, 71, 45, 50>> @@
    "VC-1" :> <<86, 67, 45, 49>> @@
    "csv" :> <<99, 115, 118>> @@
    "CSV" :> <<67, 83, 86>> @@
    "json" :> <<106, 115, 111, 110>> @@
    "JSON" :> <<74, 83, 79, 78>> @@
    "A" :> <<65>> @@
    "B" :> <<66>> @@
    "a" :> <<97>>

\* str.upper() on the code points: a..z become A..Z, the rest is unchanged.
upper_points(cs) ==
    [i \in DOMAIN cs |-> IF cs[i] >= 97 /\ cs[i] <= 122 THEN cs[i] - 32 ELSE cs[i]]

\* The string with the given code points.
from_points(cs) == CHOOSE s \in DOMAIN CodePoints : CodePoints[s] = cs

\* s.upper() for every string of the table, computed once.
UpperTable == [s \in DOMAIN CodePoints |-> from_points(upper_points(CodePoints[s]))]

\* s.upper()
upper(s) == UpperTable[s]

RECURSIVE points_lt(_, _)
points_lt(a, b) ==
    IF Len(b) = 0 THEN FALSE
    ELSE IF Len(a) = 0 THEN TRUE
    ELSE IF a[1] # b[1] THEN a[1] < b[1]
    ELSE points_lt(Tail(a), Tail(b))

\* a < b on Python strings: lexicographic on the code points.
str_lt(a, b) == points_lt(CodePoints[a], CodePoints[b])

\* The order of sorted(strs).
by_str(strs) == [i \in DOMAIN strs |-> [j \in DOMAIN strs |-> str_lt(strs[i], strs[j])]]

(***************************************************************************)
(* Text typed at the prompts of interactive_mode                           *)
(***************************************************************************)
\* The texts read and the file names built from them, with their code points.
InputPoints ==
    "" :> <<>> @@
    "0" :> <<48>> @@
    "1" :> <<49>> @@
    "2" :> <<50>> @@
    "3" :> <<51>> @@
    "4" :> <<52>> @@
    "5" :> <<53>> @@
    "6" :> <<54>> @@
    "7" :> <<55>> @@
    "9" :> <<57>> @@
    "-1" :> <<45, 49>> @@
    " 6 " :> <<32, 54, 32>> @@
    "x" :> <<120>> @@
    ".csv" :> <<46, 99, 115, 118>> @@
    ".json" :> <<46, 106, 115, 111, 110>> @@
    "files" :> <<102, 105, 108, 101, 115>> @@
    "files.csv" :> <<102, 105, 108, 101, 115, 46, 99, 115, 118>> @@
    "files.json" :> <<102, 105, 108, 101, 115, 46, 106, 115, 111, 110>> @@
    "out" :> <<111, 117, 116>> @@
    "out.csv" :> <<111, 117, 116, 46, 99, 115, 118>> @@
    "out.json" :> <<111, 117, 116, 46, 106, 115, 111, 110>>

TextPoints == InputPoints @@ CodePoints

\* The text with the given code points.
from_text_points(cs) == CHOOSE s \in DOMAIN TextPoints : TextPoints[s] = cs

\* The code points that str.strip() removes: tab, newline, ..., space.
is_space(c) == c \in {9, 10, 11, 12, 13, 32}

RECURSIVE lstrip_points(_)
lstrip_points(cs) ==
    IF Len(cs) > 0 /\ is_space(Head(cs)) THEN lstrip_points(Tail(cs)) ELSE cs

RECURSIVE rstrip_points(_)
rstrip_points(cs) ==
    IF Len(cs) > 0 /\ is_space(cs[Len(cs)])
    THEN rstrip_points(SubSeq(cs, 1, Len(cs) - 1))
    ELSE cs

\* s.strip()
strip(s) == from_text_points(rstrip_points(lstrip_points(TextPoints[s])))

is_digit(c) == c >= 48 /\ c <= 57

\* The value of a sequence of decimal digits.
RECURSIVE digits_value(_, _)
digits_value(cs, acc) ==
    IF Len(cs) = 0 THEN acc ELSE digits_value(Tail(cs), 10 * acc + (Head(cs) - 48))

\* int(s) on a stripped text: an optional sign and decimal digits, ValueError
\* for anything else (the empty text included).
int(s) ==
    LET cs == TextPoints[s]
        signed == Len(cs) > 0 /\ cs[1] \in {43, 45}
        ds == IF signed THEN Tail(cs) ELSE cs
    IN  IF Len(ds) = 0 \/ \E i \in DOMAIN ds : ~is_digit(ds[i])
        THEN [raised |-> "ValueError", value |-> 0]
        ELSE [raised |-> "none",
              value |-> IF signed /\ cs[1] = 45 THEN 0 - digits_value(ds, 0)
                        ELSE digits_value(ds, 0)]

\* s.endswith(suffix)
endswith(s, suffix) ==
    LET cs == TextPoints[s]
        xs == TextPoints[suffix]
    IN  Len(cs) >= Len(xs) /\ SubSeq(cs, Len(cs) - Len(xs) + 1, Len(cs)) = xs

\* s.rsplit('.', 1)[0]: what precedes the last dot, the whole text without one.
rsplit_dot_head(s) ==
    LET cs == TextPoints[s]
        dots == {i \in DOMAIN cs : cs[i] = 46}
    IN  IF dots = {} THEN s
        ELSE LET last == CHOOSE i \in dots : \A j \in dots : j <= i
             IN  from_text_points(SubSeq(cs, 1, last - 1))

\* a + b
concat(a, b) == from_text_points(TextPoints[a] \o TextPoints[b])

(***************************************************************************)
(* JSON values and dicts                                                   *)
(***************************************************************************)
JNull == [t |-> "null"]
JStr(s) == [t |-> "str", v |-> s]
JList(l) == [t |-> "list", v |-> l]

\* d.get(k, default)
dict_get(d, k, default) == IF k \in DOMAIN d THEN d[k] ELSE default

\* Python truthiness of a JSON value: None, "" and [] are falsy.
truthy(x) == x.t # "null" /\ Len(x.v) > 0

\* Results of a call: a returned value, or an exception that propagates.
Return(x) == [raised |-> "none", value |-> x]
Raise(e) == [raised |-> e, value |-> ""]

(***************************************************************************)
(* get_video_codec                                                         *)
(***************************************************************************)
codec_map ==
    "H264" :> "AVC (H.264)" @@
    "HEVC" :> "HEVC (H.265)" @@
    "H265" :> "HEVC (H.265)" @@
    "VP9" :> "VP9" @@
    "VP8" :> "VP8" @@
    "AV1" :> "AV1" @@
    "MPEG4" :> "MPEG-4" @@
    "MPEG2VIDEO" :> "MPEG-2" @@
    "VC1" :> "VC-1" @@
    "WMV3" :> "WMV3"

\* The body of the loop for a stream whose Type is "Video".
video_stream_codec(stream) ==
    LET codec == dict_get(stream, "Codec", JStr("Unknown")) IN
    IF codec.t = "null" THEN Raise("AttributeError")
    ELSE Return(dict_get(codec_map, upper(codec.v), upper(codec.v)))

\* stream.get('Type') == 'Video'
is_video(stream) == "Type" \in DOMAIN stream /\ stream.Type = "Video"

RECURSIVE scan_streams(_, _)
scan_streams(streams, i) ==
    IF i > Len(streams) THEN Return("Unknown")
    ELSE IF is_video(streams[i]) THEN video_stream_codec(streams[i])
    ELSE scan_streams(streams, i + 1)

\* The resolver taking the last "Video" stream instead of the first.
get_video_codec_last_video(item) ==
    LET media_streams == dict_get(item, "MediaStreams", JList(<<>>)) IN
    IF media_streams.t = "null" THEN Raise("TypeError")
    ELSE LET vs == SelectSeq(media_streams.v, is_video) IN
         IF Len(vs) = 0 THEN Return("Unknown") ELSE video_stream_codec(vs[Len(vs)])

\* [raised, value]: the label returned, or the exception that propagates.
get_video_codec(item) ==
    LET media_streams == dict_get(item, "MediaStreams", JList(<<>>)) IN
    IF media_streams.t = "null" THEN Raise("TypeError")
    ELSE scan_streams(media_streams.v, 1)

(***************************************************************************)
(* Ordered dicts                                                           *)
(***************************************************************************)
dict_keys(d) == [i \in DOMAIN d |-> d[i].key]
dict_has(d, k) == \E i \in DOMAIN d : d[i].key = k
dict_at(d, k) == d[CHOOSE i \in DOMAIN d : d[i].key = k].val
dict_set(d, k, x) ==
    IF dict_has(d, k)
    THEN [i \in DOMAIN d |-> IF d[i].key = k THEN [key |-> k, val |-> x] ELSE d[i]]
    ELSE Append(d, [key |-> k, val |-> x])

\* sorted(seq, key=...): stable. lt[i][j] tells whether the key of seq[i]
\* comes before the key of seq[j]; elements of equal keys keep their order.
sorted(seq, lt) ==
    LET n == Len(seq)
        pos(i) == 1 + Cardinality({j \in 1..n :
                      lt[j][i] \/ (~lt[i][j] /\ j < i)})
    IN [p \in 1..n |-> seq[CHOOSE i \in 1..n : pos(i) = p]]

(***************************************************************************)
(* analyze_codecs                                                          *)
(***************************************************************************)
\* The counter set to 1 instead of incremented.
counter_inc_resets(counter, k) == dict_set(counter, k, 1)
\* Counter: codec_counter[codec] += 1
counter_inc(counter, k) ==
    dict_set(counter, k, (IF dict_has(counter, k) THEN dict_at(counter, k) ELSE 0) + 1)

line(fmt, args) == [fmt |-> fmt, args |-> args]

NoFile == [written |-> FALSE, content |-> <<>>]

\* The loop body without its "continue": an item without streams is resolved too.
analyze_item_no_continue(item, acc) ==
    LET media_streams == dict_get(item, "MediaStreams", JList(<<>>))
        acc1 == IF ~truthy(media_streams)
                THEN [acc EXCEPT !.items_without_streams = @ + 1] ELSE acc
        codec == get_video_codec(item)
    IN IF codec.raised # "none" THEN [acc1 EXCEPT !.raised = codec.raised]
       ELSE IF codec.value = "Unknown"
       THEN [acc1 EXCEPT !.items_without_codec = @ + 1]
       ELSE [acc1 EXCEPT !.codec_counter = counter_inc(@, codec.value)]

\* The loop body without its test for 'Unknown': every label is counted.
analyze_item_counts_unknown(item, acc) ==
    LET media_streams == dict_get(item, "MediaStreams", JList(<<>>)) IN
    IF ~truthy(media_streams)
    THEN [acc EXCEPT !.items_without_streams = @ + 1]
    ELSE LET codec == get_video_codec(item) IN
         IF codec.raised # "none" THEN [acc EXCEPT !.raised = codec.raised]
         ELSE [acc EXCEPT !.codec_counter = counter_inc(@, codec.value)]

\* One iteration of the loop over items.
analyze_item(item, acc) ==
    LET media_streams == dict_get(item, "MediaStreams", JList(<<>>)) IN
    IF ~truthy(media_streams)
    THEN [acc EXCEPT !.items_without_streams = @ + 1]
    ELSE LET codec == get_video_codec(item) IN
         IF codec.raised # "none" THEN [acc EXCEPT !.raised = codec.raised]
         ELSE IF codec.value = "Unknown"
         THEN [acc EXCEPT !.items_without_codec = @ + 1]
         ELSE [acc EXCEPT !.codec_counter = counter_inc(@, codec.value)]

RECURSIVE analyze_loop(_, _, _)
analyze_loop(items_, i, acc) ==
    IF i > Len(items_) \/ acc.raised # "none" THEN acc
    ELSE analyze_loop(items_, i + 1, analyze_item(items_[i], acc))

analyze_warnings(acc) ==
    (IF acc.items_without_streams > 0
     THEN <<line("Warning: {items_without_streams} items have no media stream data",
                 <<ToString(acc.items_without_streams)>>)>>
     ELSE <<>>)
    \o
    (IF acc.items_without_codec > 0
     THEN <<line("Warning: {items_without_codec} items have no video codec info",
                 <<ToString(acc.items_without_codec)>>)>>
     ELSE <<>>)

\* The result carries the two local counters next to the returned mapping.
analyze_codecs(items_) ==
    LET acc == analyze_loop(items_, 1,
                   [codec_counter |-> <<>>, items_without_codec |-> 0,
                    items_without_streams |-> 0, raised |-> "none"])
    IN [raised |-> acc.raised,
        value |-> IF acc.raised = "none" THEN acc.codec_counter ELSE <<>>,
        items_without_codec |-> acc.items_without_codec,
        items_without_streams |-> acc.items_without_streams,
        stderr |-> IF acc.raised = "none" THEN analyze_warnings(acc) ELSE <<>>]

(***************************************************************************)
(* print_results and save_results                                          *)
(***************************************************************************)
blank == line("", <<>>)
rule50 == line("{'='*50}", <<>>)
rule70 == line("{'='*70}", <<>>)

RECURSIVE sum_values(_, _)
sum_values(d, i) == IF i > Len(d) THEN 0 ELSE d[i].val + sum_values(d, i + 1)

\* f"{count / total * 100:.1f}": the percentage rounded to one decimal. No
\* quotient count * 1000 / total lies half way between two tenths unless 16
\* divides total.
format_1f(count, total) ==
    LET tenths == IF total > 0 THEN (2000 * count + total) \div (2 * total) ELSE 0
    IN ToString(tenths \div 10) \o "." \o ToString(tenths % 10)

\* The sort without reverse=True.
count_lt(x, y) == x.val < y.val
\* sorted(codec_stats.items(), key=lambda x: x[1], reverse=True)
count_gt(x, y) == x.val > y.val

by_count(pairs) ==
    [i \in DOMAIN pairs |-> [j \in DOMAIN pairs |-> count_gt(pairs[i], pairs[j])]]

entry_lines(sorted_codecs, total, detailed) ==
    [i \in DOMAIN sorted_codecs |->
        IF detailed
        THEN line("{count:>6} {codec:<20} ({percentage:>5.1f}%)",
                  <<ToString(sorted_codecs[i].val), sorted_codecs[i].key,
                    format_1f(sorted_codecs[i].val, total)>>)
        ELSE line("{count:>6} {codec}",
                  <<ToString(sorted_codecs[i].val), sorted_codecs[i].key>>)]

\* The lines written to stdout.
print_results(stats, detailed) ==
    IF Len(stats) = 0 THEN <<line("No video codecs found", <<>>)>>
    ELSE LET total == sum_values(stats, 1) IN
         <<blank, rule50, line("Video Codec Statistics", <<>>), rule50,
           line("Total videos analyzed: {total}", <<ToString(total)>>), blank>>
         \o entry_lines(sorted(stats, by_count(stats)), total, detailed)
         \o <<rule50, blank>>

\* The except clauses shared by save_results and save_file_list.
write_error(e, filename) ==
    IF e = "PermissionError"
    THEN <<line("Error: Permission denied writing to {filename}", <<filename>>),
           line("Check file permissions or try a different location", <<>>)>>
    ELSE IF e = "IsADirectoryError"
    THEN <<line("Error: {filename} is a directory, not a file", <<filename>>)>>
    ELSE IF e = "OSError"
    THEN <<line("Error saving file: {e}", <<e>>)>>
    ELSE <<line("Error saving to file: {type(e).__name__}: {e}", <<e>>)>>

\* open_ is the outcome of open(filename, 'w'): "ok" or the exception it raises.
save_results(stats, filename, detailed, open_) ==
    IF open_ # "ok"
    THEN [stdout |-> <<>>, stderr |-> write_error(open_, filename), file |-> NoFile]
    ELSE LET total == sum_values(stats, 1) IN
         [stdout |-> <<line("Results saved to {filename}", <<filename>>)>>,
          stderr |-> <<>>,
          file |-> [written |-> TRUE,
                    content |->
                      <<rule50, line("Video Codec Statistics", <<>>), rule50,
                        line("Total videos analyzed: {total}", <<ToString(total)>>), blank>>
                      \o entry_lines(sorted(stats, by_count(stats)), total, detailed)
                      \o <<rule50>>]]

(***************************************************************************)
(* list_files_by_codec and save_file_list                                  *)
(***************************************************************************)
\* codec_groups[codec].append(entry), creating the group when it is new.
group_append(codec_groups, codec, entry) ==
    dict_set(codec_groups, codec,
             Append(IF dict_has(codec_groups, codec) THEN dict_at(codec_groups, codec)
                    ELSE <<>>, entry))

\* The grouping loop of list_files_by_codec: [raised, value |-> codec_groups].
RECURSIVE list_groups(_, _, _)
list_groups(items_, i, codec_groups) ==
    IF i > Len(items_) THEN Return(codec_groups)
    ELSE LET codec == get_video_codec(items_[i]) IN
         IF codec.raised # "none" THEN Raise(codec.raised)
         ELSE list_groups(items_, i + 1,
                  group_append(codec_groups, codec.value,
                      [name |-> dict_get(items_[i], "Name", "Unknown"),
                       path |-> dict_get(items_[i], "Path", "No path")]))

\* The grouping loop of save_file_list.
RECURSIVE save_groups(_, _, _)
save_groups(items_, i, codec_groups) ==
    IF i > Len(items_) THEN Return(codec_groups)
    ELSE LET codec == get_video_codec(items_[i]) IN
         IF codec.raised # "none" THEN Raise(codec.raised)
         ELSE save_groups(items_, i + 1,
                  group_append(codec_groups, codec.value,
                      [name |-> dict_get(items_[i], "Name", "Unknown"),
                       path |-> dict_get(items_[i], "Path", "No path"),
                       codec |-> codec.value]))

\* The sort by name, descending.
name_gt(x, y) == str_lt(y.name, x.name)
\* key=lambda x: x['name']
name_lt(x, y) == str_lt(x.name, y.name)

by_name(files) ==
    [i \in DOMAIN files |-> [j \in DOMAIN files |-> name_lt(files[i], files[j])]]

\* sorted(codec_groups[codec], key=lambda x: x['name'])
sorted_files(codec_groups, codec) ==
    sorted(dict_at(codec_groups, codec), by_name(dict_at(codec_groups, codec)))

\* sorted(codec_groups.keys())
sorted_keys(codec_groups) == sorted(dict_keys(codec_groups), by_str(dict_keys(codec_groups)))

RECURSIVE flatten(_)
flatten(ss) == IF Len(ss) = 0 THEN <<>> ELSE Head(ss) \o flatten(Tail(ss))

file_lines(files) ==
    flatten([i \in DOMAIN files |->
        <<blank, line("{file_info['name']}", <<files[i].name>>),
          line("  Path: {file_info['path']}", <<files[i].path>>)>>])

\* The lines written to stdout, or the exception get_video_codec raised.
list_files_by_codec(items_, codec_filter) ==
    LET groups == list_groups(items_, 1, <<>>) IN
    IF groups.raised # "none" THEN Raise(groups.raised)
    ELSE LET codec_groups == groups.value IN
    IF truthy(codec_filter)
    THEN IF dict_has(codec_groups, codec_filter.v)
         THEN Return(
                <<blank, rule70, line("Files with codec: {codec_filter}", <<codec_filter.v>>),
                  rule70>>
                \o file_lines(sorted_files(codec_groups, codec_filter.v))
                \o <<blank, rule70,
                     line("Total: {len(codec_groups[codec_filter])} files",
                          <<ToString(Len(dict_at(codec_groups, codec_filter.v)))>>),
                     blank>>)
         ELSE Return(<<blank, line("No files found with codec: {codec_filter}",
                                   <<codec_filter.v>>), blank>>)
    ELSE Return(flatten(
           [i \in DOMAIN codec_groups |->
              LET codec == sorted_keys(codec_groups)[i] IN
              <<blank, rule70,
                line("Codec: {codec} ({len(codec_groups[codec])} files)",
                     <<codec, ToString(Len(dict_at(codec_groups, codec)))>>),
                rule70>>
              \o file_lines(sorted_files(codec_groups, codec))]))

\* The rows csv.writer writes: the header, then one row for each entry.
csv_rows(codec_groups, codec_filter) ==
    LET rows(files) == [i \in DOMAIN files |->
                          <<files[i].name, files[i].codec, files[i].path>>]
    IN <<<<"Name", "Codec", "Path">>>>
       \o (IF truthy(codec_filter)
           THEN IF dict_has(codec_groups, codec_filter.v)
                THEN rows(sorted_files(codec_groups, codec_filter.v))
                ELSE <<>>
           ELSE flatten([i \in DOMAIN codec_groups |->
                   rows(sorted_files(codec_groups, sorted_keys(codec_groups)[i]))]))

\* output_data, the list json.dump writes.
json_output_data(codec_groups, codec_filter) ==
    IF truthy(codec_filter)
    THEN IF dict_has(codec_groups, codec_filter.v)
         THEN sorted_files(codec_groups, codec_filter.v)
         ELSE <<>>
    ELSE flatten([i \in DOMAIN codec_groups |->
            sorted_files(codec_groups, sorted_keys(codec_groups)[i])])

\* Every exception is caught: [stdout, stderr, file].
save_file_list(items_, filename, codec_filter, format_type, open_) ==
    LET groups == save_groups(items_, 1, <<>>) IN
    IF groups.raised # "none"
    THEN [stdout |-> <<>>, stderr |-> write_error(groups.raised, filename), file |-> NoFile]
    ELSE IF open_ # "ok"
    THEN [stdout |-> <<>>, stderr |-> write_error(open_, filename), file |-> NoFile]
    ELSE [stdout |-> <<line("File list saved to {filename} ({format_type.upper()} format)",
                            <<filename, upper(format_type)>>)>>,
          stderr |-> <<>>,
          file |-> [written |-> TRUE,
                    content |-> IF format_type = "csv"
                                THEN csv_rows(groups.value, codec_filter)
                                ELSE json_output_data(groups.value, codec_filter)]]

(***************************************************************************)
(* The catalog: the items the server may return                            *)
(***************************************************************************)
Video(c) == [Type |-> "Video", Codec |-> JStr(c)]
Audio(c) == [Type |-> "Audio", Codec |-> JStr(c)]

Items ==
    { [Name |-> "B", Path |-> "/m/b.mkv", MediaStreams |-> JList(<<Video("h264")>>)],
      [Name |-> "A", Path |-> "/m/a.mkv", MediaStreams |-> JList(<<Video("H264")>>)],
      [Name |-> "a", MediaStreams |-> JList(<<Audio("aac"), Video("hevc"), Video("av1")>>)],
      [Path |-> "/m/x.avi", MediaStreams |-> JList(<<[Type |-> "Video"]>>)],
      [Name |-> "B", Path |-> "/m/b.mp3",
       MediaStreams |-> JList(<<Audio("aac"), [Type |-> "video", Codec |-> JStr("vp9")]>>)],
      [Name |-> "a", Path |-> "/m/e", MediaStreams |-> JList(<<>>)],
      [Name |-> "B", Path |-> "/m/m"],
      [Name |-> "A", Path |-> "/m/n", MediaStreams |-> JNull],
      [Name |-> "A", Path |-> "/m/c",
       MediaStreams |-> JList(<<[Type |-> "Video", Codec |-> JNull]>>)] }

\* The streams the resolver is probed with: every row of codec_map, a codec
\* that is not in it, the codec "unknown", a missing and a null Codec, and
\* streams that are no "Video" stream.
RawCodecs == {"h264", "hevc", "HEVC", "h265", "vp9", "vp8", "av1", "mpeg4",
              "mpeg2video", "vc1", "wmv3", "prores", "unknown"}

Streams ==
    {Video(c) : c \in RawCodecs}
    \cup {[Type |-> "Video"], [Type |-> "Video", Codec |-> JNull],
          Audio("aac"), [Type |-> "video", Codec |-> JStr("vp9")],
          [Codec |-> JStr("h264")]}

RECURSIVE SeqsUpTo(_, _)
SeqsUpTo(S, n) ==
    IF n = 0 THEN {<<>>}
    ELSE LET shorter == SeqsUpTo(S, n - 1) IN
         shorter \cup {Append(s, x) : s \in {t \in shorter : Len(t) = n - 1}, x \in S}

ProbeItems ==
    {[Name |-> "A", MediaStreams |-> JList(ss)] : ss \in SeqsUpTo(Streams, MaxStreams)}
    \cup {[Name |-> "A"], [Name |-> "A", MediaStreams |-> JNull]}

(***************************************************************************)
(* test_connection and get_all_items                                       *)
(***************************************************************************)
\* Longest item sequence of a response to GET /Items.
MaxFetched == 2

\* What requests.get gives: an exception (error), or a response with a status
\* code and a body, which is no JSON ("invalid"), a JSON array, or a JSON
\* object with or without "Items".
Response(error, status_code, body) ==
    [error |-> error, status_code |-> status_code, body |-> body]

NoBody == [t |-> "invalid"]
JObject(d) == [t |-> "object", v |-> d]

ProbeResponses ==
    {Response(e, 0, NoBody) : e \in {"ConnectionError", "Timeout", "MissingSchema", "OSError"}}
    \cup {Response("none", c, NoBody) : c \in {200, 401, 403, 404, 500}}

ItemsResponses ==
    {Response(e, 0, NoBody) : e \in {"ConnectionError", "Timeout", "OSError"}}
    \cup {Response("none", c, NoBody) : c \in {401, 403, 404, 500, 503}}
    \cup {Response("none", 200, b) :
            b \in {NoBody, JList(<<>>), JObject(<<>>), JObject([Items |-> JNull])}
                  \cup {JObject([Items |-> JList(l)]) : l \in SeqsUpTo(Items, MaxFetched)}}

test_connection(response) ==
    IF response.error = "ConnectionError"
    THEN [value |-> FALSE,
          stderr |-> <<line("Error: Cannot connect to {self.server_url}", <<>>),
                       line("Check that the server URL is correct and Jellyfin is running",
                            <<>>)>>]
    ELSE IF response.error = "Timeout"
    THEN [value |-> FALSE,
          stderr |-> <<line("Error: Connection timeout to {self.server_url}", <<>>)>>]
    ELSE IF response.error = "MissingSchema"
    THEN [value |-> FALSE,
          stderr |-> <<line("Error: Invalid URL format: {self.server_url}", <<>>),
                       line("URL must include http:// or https://", <<>>)>>]
    ELSE IF response.error # "none"
    THEN [value |-> FALSE,
          stderr |-> <<line("Error connecting to Jellyfin: {type(e).__name__}: {e}",
                            <<response.error>>)>>]
    ELSE IF response.status_code = 401
    THEN [value |-> FALSE,
          stderr |-> <<line("Error: Invalid API key (401 Unauthorized)", <<>>)>>]
    ELSE IF response.status_code = 403
    THEN [value |-> FALSE,
          stderr |-> <<line("Error: Access forbidden (403 Forbidden)", <<>>)>>]
    ELSE IF response.status_code = 404
    THEN [value |-> FALSE,
          stderr |-> <<line("Error: Server endpoint not found (404) - Check server URL",
                            <<>>)>>]
    ELSE IF response.status_code # 200
    THEN [value |-> FALSE,
          stderr |-> <<line("Error: Server returned status code {response.status_code}",
                            <<ToString(response.status_code)>>)>>]
    ELSE [value |-> TRUE, stderr |-> <<>>]

\* A failed fetch that caches the empty list it returns.
fetch_failed_cached(stderr) ==
    [value |-> JList(<<>>), items_cache |-> JList(<<>>), requests |-> 1, stderr |-> stderr]

\* A return [] of get_all_items from inside the try: items_cache is not assigned.
fetch_failed(stderr) ==
    [value |-> JList(<<>>), items_cache |-> JNull, requests |-> 1, stderr |-> stderr]

\* get_all_items with self.items_cache = items_cache_, when requests.get gives
\* response: the value returned, self.items_cache afterwards, the number of
\* requests made and the lines written to stderr.
get_all_items(items_cache_, response) ==
    IF items_cache_.t # "null"
    THEN [value |-> items_cache_, items_cache |-> items_cache_, requests |-> 0,
          stderr |-> <<>>]
    ELSE IF response.error = "ConnectionError"
    THEN fetch_failed(<<line("Error: Lost connection to server while fetching items", <<>>)>>)
    ELSE IF response.error = "Timeout"
    THEN fetch_failed(<<line("Error: Request timeout - server took too long to respond", <<>>),
                        line("Try again or check server performance", <<>>)>>)
    ELSE IF response.error # "none"
    THEN fetch_failed(<<line("Error fetching items: {type(e).__name__}: {e}",
                             <<response.error>>)>>)
    ELSE IF response.status_code = 401
    THEN fetch_failed(<<line("Error: API key rejected while fetching items", <<>>)>>)
    ELSE IF response.status_code = 403
    THEN fetch_failed(<<line("Error: Insufficient permissions to access library", <<>>)>>)
    ELSE IF response.status_code = 500
    THEN fetch_failed(<<line("Error: Jellyfin server error (500)", <<>>),
                        line("The server encountered an internal error", <<>>)>>)
    ELSE IF response.status_code >= 400
    THEN \* raise_for_status()
         fetch_failed(<<line("Error: HTTP {e.response.status_code} while fetching items",
                             <<ToString(response.status_code)>>)>>)
    ELSE IF response.body.t = "invalid"
    THEN \* response.json()
         fetch_failed(<<line("Error: Invalid JSON response from server", <<>>)>>)
    ELSE IF response.body.t # "object"
    THEN \* data.get on a value that is no dict
         fetch_failed(<<line("Error fetching items: {type(e).__name__}: {e}",
                             <<"AttributeError">>)>>)
    ELSE LET items_ == dict_get(response.body.v, "Items", JList(<<>>)) IN
         [value |-> items_, items_cache |-> items_, requests |-> 1,
          stderr |-> IF ~truthy(items_)
                     THEN <<line("Warning: No video items found in library", <<>>)>>
                     ELSE <<line("Found {len(items)} video items",
                                 <<ToString(Len(items_.v))>>)>>]

(***************************************************************************)
(* State                                                                   *)
(***************************************************************************)
VARIABLES
    items,        \* the item snapshot the operations are called with
    codec_stats,  \* the result of analyze_codecs(items), once it was called
    call,         \* the call in progress and what it did
    pc,           \* "fetched", "idle", "called", "exit", or "crashed" by an exception;
                  \* in main and interactive_mode also "start", "connected",
                  \* "printed" and the prompt that interactive_mode waits at
    args,         \* the command line flags of main
    locals,       \* filename and format_type of interactive_mode
    exit_status,  \* the argument of sys.exit, 0 as long as it was not called
    items_cache,  \* analyzer.items_cache
    counts        \* calls of get_all_items and analyze_codecs, requests for /Items

vars == <<pc, items, codec_stats, call, args, locals, exit_status, items_cache, counts>>

\* What the operations of the analyzer leave alone.
process == <<args, locals, exit_status, items_cache, counts>>

\* main -i: the other flags are not read.
InteractiveArgs ==
    [interactive |-> TRUE, list_files |-> FALSE, codec |-> JNull, detailed |-> FALSE,
     output |-> JNull]

NoLocals == [filename |-> "", format_type |-> ""]

NoCounts == [get_all_items |-> 0, requests |-> 0, analyze_codecs |-> 0]

NotAnalyzed == [raised |-> "not called", value |-> <<>>, items_without_codec |-> 0,
                items_without_streams |-> 0, stderr |-> <<>>]

Call(op, arg, res, stdout, stderr, file) ==
    [op |-> op, arg |-> arg, raised |-> res.raised, value |-> res.value,
     stdout |-> stdout, stderr |-> stderr, file |-> file]

NoCall == Call("none", <<>>, Return(""), <<>>, <<>>, NoFile)

\* After a call: back at the caller, or the exception ends the program.
after(raised) == IF raised = "none" THEN "called" ELSE "crashed"

Init ==
    /\ items \in SeqsUpTo(Items, MaxItems)
    /\ codec_stats = NotAnalyzed
    /\ call = NoCall
    /\ pc = "fetched"
    /\ args = InteractiveArgs
    /\ locals = NoLocals
    /\ exit_status = 0
    /\ items_cache = JList(items)
    /\ counts = [NoCounts EXCEPT !.get_all_items = 1, !.requests = 1]

\* main and interactive_mode stop when the fetch returned no item: main with
\* sys.exit(1), interactive_mode with a return, after which main returns.
NoItems ==
    /\ pc = "fetched"
    /\ Len(items) = 0
    /\ exit_status' = IF args.interactive THEN exit_status ELSE 1
    /\ pc' = "exit"
    /\ UNCHANGED <<items, codec_stats, call, args, locals, items_cache, counts>>

\* main and interactive_mode call analyze_codecs right after the fetch.
AnalyzeCodecs ==
    LET r == analyze_codecs(items) IN
    /\ pc = "fetched"
    /\ Len(items) > 0
    /\ codec_stats' = r
    /\ call' = Call("analyze_codecs", <<>>, [raised |-> r.raised, value |-> r.value],
                    <<>>, r.stderr, NoFile)
    /\ pc' = after(r.raised)
    /\ counts' = [counts EXCEPT !.analyze_codecs = @ + 1]
    /\ UNCHANGED <<items, args, locals, exit_status, items_cache>>

Filenames == {"out"}
OpenOutcomes == {"ok", "PermissionError", "IsADirectoryError", "OSError"}
Filters == {JNull, JStr(""), JStr("AVC (H.264)"), JStr("VP9")}

PrintResults ==
    \E detailed \in BOOLEAN :
        /\ pc = "idle"
        /\ call' = Call("print_results", [detailed |-> detailed], Return(""),
                        print_results(codec_stats.value, detailed), <<>>, NoFile)
        /\ pc' = "called"
        /\ UNCHANGED <<items, codec_stats>>
        /\ UNCHANGED process

SaveResults ==
    \E detailed \in BOOLEAN, filename \in Filenames, open_ \in OpenOutcomes :
        LET r == save_results(codec_stats.value, filename, detailed, open_) IN
        /\ pc = "idle"
        /\ call' = Call("save_results",
                        [detailed |-> detailed, filename |-> filename, open |-> open_],
                        Return(""), r.stdout, r.stderr, r.file)
        /\ pc' = "called"
        /\ UNCHANGED <<items, codec_stats>>
        /\ UNCHANGED process

\* A listing that takes the items off the list it is passed while it groups them.
ListFilesByCodec_consumes_items ==
    \E codec_filter \in Filters :
        LET r == list_files_by_codec(items, codec_filter) IN
        /\ pc = "idle"
        /\ call' = Call("list_files_by_codec", [codec_filter |-> codec_filter],
                        [raised |-> r.raised, value |-> ""],
                        IF r.raised = "none" THEN r.value ELSE <<>>, <<>>, NoFile)
        /\ pc' = after(r.raised)
        /\ items' = <<>>
        /\ UNCHANGED codec_stats
        /\ UNCHANGED process

ListFilesByCodec ==
    \E codec_filter \in Filters :
        LET r == list_files_by_codec(items, codec_filter) IN
        /\ pc = "idle"
        /\ call' = Call("list_files_by_codec", [codec_filter |-> codec_filter],
                        [raised |-> r.raised, value |-> ""],
                        IF r.raised = "none" THEN r.value ELSE <<>>, <<>>, NoFile)
        /\ pc' = after(r.raised)
        /\ UNCHANGED <<items, codec_stats>>
        /\ UNCHANGED process

SaveFileList ==
    \E codec_filter \in Filters, format_type \in {"csv", "json"},
       filename \in Filenames, open_ \in OpenOutcomes :
        LET r == save_file_list(items, filename, codec_filter, format_type, open_) IN
        /\ pc = "idle"
        /\ call' = Call("save_file_list",
                        [codec_filter |-> codec_filter, format_type |-> format_type,
                         filename |-> filename, open |-> open_],
                        Return(""), r.stdout, r.stderr, r.file)
        /\ pc' = "called"
        /\ UNCHANGED <<items, codec_stats>>
        /\ UNCHANGED process

\* A loop that computes the statistics anew before each menu.
Done_analyzes_again ==
    /\ pc = "called"
    /\ call' = NoCall
    /\ pc' = "idle"
    /\ codec_stats' = analyze_codecs(items)
    /\ counts' = [counts EXCEPT !.analyze_codecs = @ + 1]
    /\ UNCHANGED <<items, args, locals, exit_status, items_cache>>

\* The call returns to its caller, which goes on to the next call.
Done ==
    /\ pc = "called"
    /\ call' = NoCall
    /\ pc' = "idle"
    /\ UNCHANGED <<items, codec_stats>>
    /\ UNCHANGED process

Next ==
    \/ NoItems
    \/ AnalyzeCodecs
    \/ PrintResults
    \/ SaveResults
    \/ ListFilesByCodec
    \/ SaveFileList
    \/ Done

Spec == Init /\ [][Next]_vars

(***************************************************************************)
(* The resolver alone: get_video_codec applied to one item.                *)
(***************************************************************************)
InitResolver ==
    /\ items \in {<<item>> : item \in ProbeItems}
    /\ codec_stats = NotAnalyzed
    /\ call = NoCall
    /\ pc = "idle"
    /\ args = InteractiveArgs
    /\ locals = NoLocals
    /\ exit_status = 0
    /\ items_cache = JList(items)
    /\ counts = [NoCounts EXCEPT !.get_all_items = 1, !.requests = 1]

GetVideoCodec ==
    \E i \in DOMAIN items :
        LET r == get_video_codec(items[i]) IN
        /\ pc = "idle"
        /\ call' = Call("get_video_codec", [item |-> items[i]], r, <<>>, <<>>, NoFile)
        /\ pc' = after(r.raised)
        /\ UNCHANGED <<items, codec_stats>>
        /\ UNCHANGED process

NextResolver ==
    \/ GetVideoCodec
    \/ Done

SpecResolver == InitResolver /\ [][NextResolver]_vars

(***************************************************************************)
(* main after the validation of its arguments, in batch mode and with -i   *)
(* (interactive_mode).  A step of interactive_mode goes from one input()   *)
(* to the next one; stdout of the step holds what it prints, apart from    *)
(* the fixed banner of the main menu and the prompt texts.                 *)
(***************************************************************************)
\* The flags main reads in batch mode: -l with or without -c, else -d and -o.
BatchArgs ==
    {[interactive |-> FALSE, list_files |-> TRUE, codec |-> c, detailed |-> FALSE,
      output |-> JNull] : c \in {JNull, JStr("AVC (H.264)")}}
    \cup {[interactive |-> FALSE, list_files |-> FALSE, codec |-> JNull, detailed |-> d,
           output |-> o] : d \in BOOLEAN, o \in {JNull, JStr("out")}}

InitMain ==
    /\ items = <<>>
    /\ codec_stats = NotAnalyzed
    /\ call = NoCall
    /\ pc = "start"
    /\ args \in {InteractiveArgs} \cup BatchArgs
    /\ locals = NoLocals
    /\ exit_status = 0
    /\ items_cache = JNull
    /\ counts = NoCounts

\* main, lines 521-527.
TestConnection ==
    \E response \in ProbeResponses :
        LET r == test_connection(response) IN
        /\ pc = "start"
        /\ call' = Call("test_connection", [response |-> response], Return(r.value), <<>>,
                        IF r.value THEN r.stderr
                        ELSE r.stderr \o <<line("Failed to connect to Jellyfin server", <<>>)>>,
                        NoFile)
        /\ exit_status' = IF r.value THEN exit_status ELSE 1
        /\ pc' = IF r.value THEN "connected" ELSE "exit"
        /\ UNCHANGED <<items, codec_stats, args, locals, items_cache, counts>>

\* items = analyzer.get_all_items(), in main and in interactive_mode.  The
\* variable items is a sequence: None, which `not items` treats as [], is <<>>.
GetAllItems ==
    \E response \in ItemsResponses :
        LET r == get_all_items(items_cache, response) IN
        /\ pc = "connected"
        /\ items' = IF truthy(r.value) THEN r.value.v ELSE <<>>
        /\ items_cache' = r.items_cache
        /\ counts' = [counts EXCEPT !.get_all_items = @ + 1, !.requests = @ + r.requests]
        /\ call' = Call("get_all_items", [response |-> response], Return(r.value), <<>>,
                        r.stderr, NoFile)
        /\ pc' = "fetched"
        /\ UNCHANGED <<codec_stats, args, locals, exit_status>>

\* What input() gives: the text typed, or EOFError or KeyboardInterrupt.
Inputs(texts) == {Return(t) : t \in texts} \cup {Raise("EOFError"), Raise("KeyboardInterrupt")}

MenuTexts == {"1", "2", "3", "4", "5", "6", " 6 ", "7", ""}
CodecTexts == {"1", "2", "0", "9", "-1", "", "VP9", "AVC (H.264)"}
FilenameTexts == {"", "out", "out.json"}
FormatTexts == {"", "1", "2", "x"}
SaveTexts == {"1", "2", "3"}

\* A step of interactive_mode that calls none of the analyzer's operations.
Said(input, stdout) ==
    Call("interactive_mode", [input |-> input], Return(""), stdout, <<>>, NoFile)

\* input() raises outside a try: the exception leaves interactive_mode and main.
Uncaught(input) ==
    Call("interactive_mode", [input |-> input], input, <<>>, <<>>, NoFile)

\* analyzer.list_files_by_codec(items, codec_filter), after printing `printed`.
ListCall(arg, printed) ==
    LET r == list_files_by_codec(items, arg.codec_filter) IN
    Call("list_files_by_codec", arg, [raised |-> r.raised, value |-> ""],
         printed \o (IF r.raised = "none" THEN r.value ELSE <<>>), <<>>, NoFile)

\* analyzer.save_file_list(items, filename, codec_filter, format_type=format_type)
SaveCall(arg) ==
    LET r == save_file_list(items, arg.filename, arg.codec_filter, arg.format_type, arg.open)
    IN  Call("save_file_list", arg, Return(""), r.stdout, r.stderr, r.file)

\* The numbered codecs printed before "Enter codec name or number: ".
available_codecs(stats) ==
    <<line("\nAvailable codecs:", <<>>)>>
    \o [i \in DOMAIN stats |->
          LET codec == sorted_keys(stats)[i] IN
          line("  {i}. {codec} ({codec_stats[codec]} files)",
               <<ToString(i), codec, ToString(dict_at(stats, codec))>>)]

\* An ordinal resolved against the labels in the order the Counter keeps them.
codec_choice_filter_unsorted(stats, codec_choice) ==
    LET codec_num == int(codec_choice)
        codec_list == dict_keys(stats)
    IN  IF codec_num.raised = "ValueError"
        THEN [continue |-> FALSE, codec_filter |-> JStr(codec_choice)]
        ELSE IF 1 <= codec_num.value /\ codec_num.value <= Len(codec_list)
        THEN [continue |-> FALSE, codec_filter |-> JStr(codec_list[codec_num.value])]
        ELSE [continue |-> TRUE, codec_filter |-> JNull]

\* The try statement after "Enter codec name or number: ": the filter chosen,
\* or the `continue` after "Invalid number".
codec_choice_filter(stats, codec_choice) ==
    LET codec_num == int(codec_choice)
        codec_list == sorted_keys(stats)
    IN  IF codec_num.raised = "ValueError"
        THEN [continue |-> FALSE, codec_filter |-> JStr(codec_choice)]
        ELSE IF 1 <= codec_num.value /\ codec_num.value <= Len(codec_list)
        THEN [continue |-> FALSE, codec_filter |-> JStr(codec_list[codec_num.value])]
        ELSE [continue |-> TRUE, codec_filter |-> JNull]

\* The filename with the extension of the format, lines 403-407.
adjust_extension(filename, format_type) ==
    IF format_type = "csv" /\ ~endswith(filename, ".csv")
    THEN concat(rsplit_dot_head(filename), ".csv")
    ELSE IF format_type = "json" /\ ~endswith(filename, ".json")
    THEN concat(rsplit_dot_head(filename), ".json")
    ELSE filename

\* The end of a step of interactive_mode.
Goto(call_, pc_, locals_) ==
    /\ call' = call_
    /\ pc' = pc_
    /\ locals' = locals_
    /\ UNCHANGED <<items, codec_stats, args, exit_status, items_cache, counts>>

\* "Enter your choice (1-6): " and the branch of the choice, up to the next
\* input() or the end of the loop body.
Menu ==
    \E input \in Inputs(MenuTexts) :
        LET choice == strip(input.value) IN
        /\ pc = "idle"
        /\ args.interactive
        /\ IF input.raised # "none"
           THEN Goto(Said(input, <<line("\n\nExiting...", <<>>)>>), "exit", locals)
           ELSE IF choice = "1"
           THEN Goto(Call("print_results", [detailed |-> FALSE, input |-> input], Return(""),
                          print_results(codec_stats.value, FALSE), <<>>, NoFile),
                     "called", locals)
           ELSE IF choice = "2"
           THEN Goto(Call("print_results", [detailed |-> TRUE, input |-> input], Return(""),
                          print_results(codec_stats.value, TRUE), <<>>, NoFile),
                     "called", locals)
           ELSE IF choice = "3"
           THEN LET c == ListCall([codec_filter |-> JNull, input |-> input],
                                  <<line("\nListing all files by codec...", <<>>)>>)
                IN  Goto(c, after(c.raised), locals)
           ELSE IF choice = "4"
           THEN Goto(Said(input, available_codecs(codec_stats.value)), "codec_prompt", locals)
           ELSE IF choice = "5"
           THEN Goto(Said(input, <<>>), "filename_prompt", locals)
           ELSE IF choice = "6"
           THEN Goto(Said(input, <<line("\nExiting...", <<>>)>>), "exit", locals)
           ELSE Goto(Said(input, <<line("\nInvalid choice. Please enter 1-6.", <<>>)>>),
                     "called", locals)

\* "Enter codec name or number: " of choice 4, lines 372-386.
CodecPrompt ==
    \E input \in Inputs(CodecTexts) :
        LET chosen == codec_choice_filter(codec_stats.value, strip(input.value)) IN
        /\ pc = "codec_prompt"
        /\ IF input.raised # "none"
           THEN Goto(Uncaught(input), "crashed", locals)
           ELSE IF chosen.continue
           THEN Goto(Said(input, <<line("Invalid number", <<>>)>>), "called", locals)
           ELSE LET c == ListCall([codec_filter |-> chosen.codec_filter, input |-> input],
                                  <<>>)
                IN  Goto(c, after(c.raised), locals)

\* "Enter filename (default: files.csv): ", lines 389-395.
FilenamePrompt ==
    \E input \in Inputs(FilenameTexts) :
        LET filename == strip(input.value) IN
        /\ pc = "filename_prompt"
        /\ IF input.raised # "none"
           THEN Goto(Uncaught(input), "crashed", locals)
           ELSE Goto(Said(input,
                          <<line("\nExport format:", <<>>),
                            line("1. CSV (recommended - easily open in Excel/spreadsheets)",
                                 <<>>),
                            line("2. JSON (for programmatic use)", <<>>)>>),
                     "format_prompt",
                     [locals EXCEPT !.filename = IF filename = "" THEN "files.csv"
                                                 ELSE filename])

\* "Enter format choice (1-2, default: 1): ", lines 397-411.
FormatPrompt ==
    \E input \in Inputs(FormatTexts) :
        LET format_choice == IF strip(input.value) = "" THEN "1" ELSE strip(input.value)
            format_type == IF format_choice = "1" THEN "csv" ELSE "json"
        IN  /\ pc = "format_prompt"
            /\ IF input.raised # "none"
               THEN Goto(Uncaught(input), "crashed", locals)
               ELSE Goto(Said(input,
                              <<line("\nSave options:", <<>>),
                                line("1. All files (all codecs)", <<>>),
                                line("2. Specific codec only", <<>>)>>),
                         "save_prompt",
                         [filename |-> adjust_extension(locals.filename, format_type),
                          format_type |-> format_type])

\* "Enter choice (1-2): ", lines 413-420 and 437-438.  filename and format_type
\* are assigned anew before they are read again: they are cleared when the
\* choice is done.
SavePrompt ==
    \E input \in Inputs(SaveTexts), open_ \in OpenOutcomes :
        LET save_choice == strip(input.value) IN
        /\ pc = "save_prompt"
        /\ IF input.raised # "none"
           THEN Goto(Uncaught(input), "crashed", locals)
           ELSE IF save_choice = "1"
           THEN Goto(SaveCall([codec_filter |-> JNull, format_type |-> locals.format_type,
                               filename |-> locals.filename, open |-> open_,
                               input |-> input]),
                     "called", NoLocals)
           ELSE IF save_choice = "2"
           THEN Goto(Said(input, available_codecs(codec_stats.value)),
                     "save_codec_prompt", locals)
           ELSE Goto(Said(input, <<line("Invalid choice", <<>>)>>), "called", NoLocals)

\* "Enter codec name or number: " of choice 5, lines 422-436.
SaveCodecPrompt ==
    \E input \in Inputs(CodecTexts), open_ \in OpenOutcomes :
        LET chosen == codec_choice_filter(codec_stats.value, strip(input.value)) IN
        /\ pc = "save_codec_prompt"
        /\ IF input.raised # "none"
           THEN Goto(Uncaught(input), "crashed", locals)
           ELSE IF chosen.continue
           THEN Goto(Said(input, <<line("Invalid number", <<>>)>>), "called", NoLocals)
           ELSE Goto(SaveCall([codec_filter |-> chosen.codec_filter,
                               format_type |-> locals.format_type,
                               filename |-> locals.filename, open |-> open_,
                               input |-> input]),
                     "called", NoLocals)

\* main -l, lines 546-548.
BatchListFiles ==
    LET c == ListCall([codec_filter |-> args.codec], <<>>) IN
    /\ pc = "idle"
    /\ ~args.interactive
    /\ args.list_files
    /\ call' = c
    /\ pc' = IF c.raised = "none" THEN "exit" ELSE "crashed"
    /\ UNCHANGED <<items, codec_stats>>
    /\ UNCHANGED process

\* main, line 551.
BatchPrintResults ==
    /\ pc = "idle"
    /\ ~args.interactive
    /\ ~args.list_files
    /\ call' = Call("print_results", [detailed |-> args.detailed], Return(""),
                    print_results(codec_stats.value, args.detailed), <<>>, NoFile)
    /\ pc' = IF truthy(args.output) THEN "printed" ELSE "exit"
    /\ UNCHANGED <<items, codec_stats>>
    /\ UNCHANGED process

\* main, lines 554-555.
BatchSaveResults ==
    \E open_ \in OpenOutcomes :
        LET r == save_results(codec_stats.value, args.output.v, args.detailed, open_) IN
        /\ pc = "printed"
        /\ call' = Call("save_results",
                        [detailed |-> args.detailed, filename |-> args.output.v,
                         open |-> open_],
                        Return(""), r.stdout, r.stderr, r.file)
        /\ pc' = "exit"
        /\ UNCHANGED <<items, codec_stats>>
        /\ UNCHANGED process

NextMain ==
    \/ TestConnection
    \/ GetAllItems
    \/ NoItems
    \/ AnalyzeCodecs
    \/ Done
    \/ Menu
    \/ CodecPrompt
    \/ FilenamePrompt
    \/ FormatPrompt
    \/ SavePrompt
    \/ SaveCodecPrompt
    \/ BatchListFiles
    \/ BatchPrintResults
    \/ BatchSaveResults

SpecMain == InitMain /\ [][NextMain]_vars

(***************************************************************************)
(* The operations called in any order, each of them possibly twice in a    *)
(* row with the same arguments.                                            *)
(***************************************************************************)
\* The call c made once more, on items and codec_stats as they are now.
again(c) ==
    IF c.op = "print_results"
    THEN Call(c.op, c.arg, Return(""), print_results(codec_stats.value, c.arg.detailed),
              <<>>, NoFile)
    ELSE IF c.op = "save_results"
    THEN LET r == save_results(codec_stats.value, c.arg.filename, c.arg.detailed, c.arg.open)
         IN  Call(c.op, c.arg, Return(""), r.stdout, r.stderr, r.file)
    ELSE IF c.op = "list_files_by_codec"
    THEN ListCall(c.arg, <<>>)
    ELSE SaveCall(c.arg)

Consumers == {"print_results", "save_results", "list_files_by_codec", "save_file_list"}

\* The caller repeats the call that has just returned.
Repeat ==
    /\ pc = "called"
    /\ call.op \in Consumers
    /\ call' = again(call)
    /\ pc' = "repeated"
    /\ UNCHANGED <<items, codec_stats>>
    /\ UNCHANGED process

NextRepeat ==
    \/ NoItems
    \/ AnalyzeCodecs
    \/ PrintResults
    \/ SaveResults
    \/ ListFilesByCodec
    \/ SaveFileList
    \/ Done
    \/ Repeat

SpecRepeat == Init /\ [][NextRepeat]_vars

(***************************************************************************)
(* analyze_codecs of jellyfin_codec_analyzer.py, which resolves the codec  *)
(* inside its own loop over the streams, next to the one of jellycodec.py. *)
(***************************************************************************)
\* The loop over the streams without its break: every "Video" stream is counted.
inline_streams_no_break(streams, i, acc) ==
    LET videos == SelectSeq(streams, is_video)
        count[n \in 0..Len(videos)] ==
            IF n = 0 THEN acc
            ELSE LET codec == dict_get(videos[n], "Codec", JStr("Unknown")) IN
                 IF count[n - 1].raised # "none" THEN count[n - 1]
                 ELSE IF codec.t = "null"
                 THEN [count[n - 1] EXCEPT !.raised = "AttributeError"]
                 ELSE [count[n - 1] EXCEPT !.codec_counter =
                          counter_inc(@, dict_get(codec_map, upper(codec.v), upper(codec.v)))]
    IN  IF Len(videos) = 0 THEN [acc EXCEPT !.items_without_codec = @ + 1]
        ELSE count[Len(videos)]

\* for stream in media_streams, from stream i on, and the test of
\* video_stream_found after it: no stream is left only if none was "Video".
RECURSIVE inline_streams(_, _, _)
inline_streams(streams, i, acc) ==
    IF i > Len(streams) THEN [acc EXCEPT !.items_without_codec = @ + 1]
    ELSE IF is_video(streams[i])
    THEN LET codec == dict_get(streams[i], "Codec", JStr("Unknown")) IN
         IF codec.t = "null" THEN [acc EXCEPT !.raised = "AttributeError"]
         ELSE LET codec_name == dict_get(codec_map, upper(codec.v), upper(codec.v)) IN
              [acc EXCEPT !.codec_counter = counter_inc(@, codec_name)]
    ELSE inline_streams(streams, i + 1, acc)

\* One iteration of the loop over items.
inline_item(item, acc) ==
    LET media_streams == dict_get(item, "MediaStreams", JList(<<>>)) IN
    IF ~truthy(media_streams)
    THEN [acc EXCEPT !.items_without_streams = @ + 1]
    ELSE inline_streams(media_streams.v, 1, acc)

RECURSIVE inline_loop(_, _, _)
inline_loop(items_, i, acc) ==
    IF i > Len(items_) \/ acc.raised # "none" THEN acc
    ELSE inline_loop(items_, i + 1, inline_item(items_[i], acc))

jellyfin_codec_analyzer_analyze_codecs(items_) ==
    LET acc == inline_loop(items_, 1,
                   [codec_counter |-> <<>>, items_without_codec |-> 0,
                    items_without_streams |-> 0, raised |-> "none"])
    IN [raised |-> acc.raised,
        value |-> IF acc.raised = "none" THEN acc.codec_counter ELSE <<>>,
        items_without_codec |-> acc.items_without_codec,
        items_without_streams |-> acc.items_without_streams,
        stderr |-> IF acc.raised = "none" THEN analyze_warnings(acc) ELSE <<>>]

\* The catalog, and items whose Video stream has a case variant of "unknown"
\* as its Codec.
AnalyzedItems ==
    Items \cup {[Name |-> "A", Path |-> "/m/u", MediaStreams |-> JList(<<Video(c)>>)] :
                  c \in {"unknown", "Unknown", "UNKNOWN"}}

InitAnalyzers ==
    /\ items \in SeqsUpTo(AnalyzedItems, MaxItems)
    /\ codec_stats = NotAnalyzed
    /\ call = NoCall
    /\ pc = "fetched"
    /\ args = InteractiveArgs
    /\ locals = NoLocals
    /\ exit_status = 0
    /\ items_cache = JList(items)
    /\ counts = [NoCounts EXCEPT !.get_all_items = 1, !.requests = 1]

\* Both implementations are called with the same items: codec_stats takes the
\* result of jellycodec.py, call the result of jellyfin_codec_analyzer.py.
AnalyzeCodecsTwice ==
    LET r == analyze_codecs(items)
        q == jellyfin_codec_analyzer_analyze_codecs(items)
    IN  /\ pc = "fetched"
        /\ codec_stats' = r
        /\ call' = Call("jellyfin_codec_analyzer.analyze_codecs", <<>>,
                        [raised |-> q.raised,
                         value |-> [stats |-> q.value,
                                    items_without_codec |-> q.items_without_codec,
                                    items_without_streams |-> q.items_without_streams]],
                        <<>>, q.stderr, NoFile)
        /\ pc' = "called"
        /\ counts' = [counts EXCEPT !.analyze_codecs = @ + 1]
        /\ UNCHANGED <<items, args, locals, exit_status, items_cache>>

NextAnalyzers ==
    \/ AnalyzeCodecsTwice
    \/ Done

SpecAnalyzers == InitAnalyzers /\ [][NextAnalyzers]_vars

(***************************************************************************)
(* get_all_items called again and again on one analyzer                    *)
(***************************************************************************)
\* Most calls of get_all_items in a run.
MaxCalls == 3

\* No request is made: no response is read.
NoRequest == Response("no request", 0, NoBody)

InitFetch ==
    /\ items = <<>>
    /\ codec_stats = NotAnalyzed
    /\ call = NoCall
    /\ pc = "idle"
    /\ args = InteractiveArgs
    /\ locals = NoLocals
    /\ exit_status = 0
    /\ items_cache = JNull
    /\ counts = NoCounts

\* One call of analyzer.get_all_items(); arg holds items_cache as it was
\* before the call and the response, if the call made a request.
CallGetAllItems ==
    \E response \in IF items_cache = JNull THEN ItemsResponses ELSE {NoRequest} :
        LET r == get_all_items(items_cache, response) IN
        /\ pc = "idle"
        /\ counts.get_all_items < MaxCalls
        /\ items' = IF truthy(r.value) THEN r.value.v ELSE <<>>
        /\ items_cache' = r.items_cache
        /\ counts' = [counts EXCEPT !.get_all_items = @ + 1, !.requests = @ + r.requests]
        /\ call' = Call("get_all_items", [response |-> response, items_cache |-> items_cache],
                        Return(r.value), <<>>, r.stderr, NoFile)
        /\ pc' = "called"
        /\ UNCHANGED <<codec_stats, args, locals, exit_status>>

NextFetch ==
    \/ CallGetAllItems
    \/ Done

SpecFetch == InitFetch /\ [][NextFetch]_vars

(***************************************************************************)
(* Properties                                                              *)
(***************************************************************************)
Range(f) == {f[i] : i \in DOMAIN f}

\* The item has no streams: MediaStreams is missing, null or the empty list.
NoStreams(item) ==
    \/ "MediaStreams" \notin DOMAIN item
    \/ item.MediaStreams.t = "null"
    \/ item.MediaStreams.v = <<>>

\* The positions of the streams of the item whose Type is exactly "Video".
VideoPositions(item) ==
    IF NoStreams(item) THEN {}
    ELSE {i \in DOMAIN item.MediaStreams.v :
            "Type" \in DOMAIN item.MediaStreams.v[i] /\ item.MediaStreams.v[i].Type = "Video"}

Min(S) == CHOOSE x \in S : \A y \in S : x <= y

FirstVideo(item) == item.MediaStreams.v[Min(VideoPositions(item))]

\* The label of the item, where get_video_codec returns one.
Label(item) == get_video_codec(item).value

Analyzed == codec_stats.raised = "none"

\* C1: when analyze_codecs has returned, the counts of the returned mapping
\* add up to the number of items minus the items_without_streams and
\* items_without_codec the call accumulated.
C1_SumOfCounts ==
    Analyzed =>
        sum_values(codec_stats.value, 1)
            = Len(items) - codec_stats.items_without_streams
                         - codec_stats.items_without_codec

C1_Witness ==
    /\ Analyzed
    /\ Len(items) = MaxItems
    /\ codec_stats.items_without_streams = 1
    /\ codec_stats.items_without_codec = 1
    /\ sum_values(codec_stats.value, 1) = MaxItems - 2

\* C2: analyze_codecs returns for every item sequence, however malformed its
\* items are: no exception ends the call.
C2_NeverRaises == call.op = "analyze_codecs" => call.raised = "none"

\* The table of labels, by uppercased codec; any other value is its own label.
C4_Table(u) ==
    CASE u = "H264" -> "AVC (H.264)"
      [] u \in {"HEVC", "H265"} -> "HEVC (H.265)"
      [] u = "MPEG4" -> "MPEG-4"
      [] u = "MPEG2VIDEO" -> "MPEG-2"
      [] u = "VC1" -> "VC-1"
      [] OTHER -> u

\* C4: get_video_codec looks at the first stream whose Type is "Video" alone.
\* Without such a stream it returns "Unknown"; with one, it returns the label
\* of the table for the uppercased Codec ("Unknown" when the key is missing),
\* or the uppercased value itself, which is never "Unknown". It returns unless
\* MediaStreams or that Codec is null.
C4_FirstVideoStream ==
    call.op = "get_video_codec" =>
        LET item == call.arg.item IN
        IF "MediaStreams" \in DOMAIN item /\ item.MediaStreams.t = "null"
        THEN call.raised = "TypeError"
        ELSE IF VideoPositions(item) = {}
        THEN call.raised = "none" /\ call.value = "Unknown"
        ELSE LET stream == FirstVideo(item) IN
             IF "Codec" \in DOMAIN stream /\ stream.Codec.t = "null"
             THEN call.raised = "AttributeError"
             ELSE /\ call.raised = "none"
                  /\ call.value # "Unknown"
                  /\ call.value = C4_Table(UpperTable[
                        IF "Codec" \in DOMAIN stream THEN stream.Codec.v ELSE "Unknown"])

C4_Witness ==
    /\ call.op = "get_video_codec"
    /\ call.value = "HEVC (H.265)"
    /\ LET streams == call.arg.item.MediaStreams.v IN
       /\ Len(streams) = 2
       /\ streams[1] = Video("h265")
       /\ streams[2] = Video("av1")

\* The items with streams that get_video_codec labels L.
C5_Labelled(L) == {i \in DOMAIN items : ~NoStreams(items[i]) /\ Label(items[i]) = L}

\* C5: when analyze_codecs has returned, items_without_streams counts the
\* items without streams, items_without_codec the items with streams whose
\* label is "Unknown", and the returned mapping has one key for each other
\* label, with the number of items of that label, which is at least 1.
C5_ThreeClasses ==
    Analyzed =>
        LET stats == codec_stats.value IN
        /\ codec_stats.items_without_streams
             = Cardinality({i \in DOMAIN items : NoStreams(items[i])})
        /\ codec_stats.items_without_codec = Cardinality(C5_Labelled("Unknown"))
        /\ \A i, j \in DOMAIN stats : stats[i].key = stats[j].key => i = j
        /\ \A i \in DOMAIN stats :
             /\ stats[i].key # "Unknown"
             /\ stats[i].val >= 1
             /\ stats[i].val = Cardinality(C5_Labelled(stats[i].key))
        /\ \A i \in DOMAIN items :
             (~NoStreams(items[i]) /\ Label(items[i]) # "Unknown")
                 => dict_has(stats, Label(items[i]))

C5_Witness ==
    /\ Analyzed
    /\ codec_stats.items_without_streams = 1
    /\ \E i \in DOMAIN codec_stats.value : codec_stats.value[i].val = 2

(***************************************************************************)
(* Reading the outputs back                                                *)
(***************************************************************************)
EntryFormats == {"{count:>6} {codec:<20} ({percentage:>5.1f}%)", "{count:>6} {codec}"}

\* The codec entries of a report, in the order they are written.
ReportEntries(text) == SelectSeq(text, LAMBDA l : l.fmt \in EntryFormats)

\* The (name, codec, path) entries of a listing, in the order they are
\* written: the codec of an entry is the one of the banner above it.
RECURSIVE TextEntries(_, _, _)
TextEntries(text, i, codec) ==
    IF i > Len(text) THEN <<>>
    ELSE IF text[i].fmt \in {"Codec: {codec} ({len(codec_groups[codec])} files)",
                            "Files with codec: {codec_filter}"}
    THEN TextEntries(text, i + 1, text[i].args[1])
    ELSE IF text[i].fmt = "{file_info['name']}"
    THEN <<<<text[i].args[1], codec, text[i + 1].args[1]>>>>
         \o TextEntries(text, i + 2, codec)
    ELSE TextEntries(text, i + 1, codec)

\* The entries of an export file: the rows below the header, or the objects.
FileEntries(format_type, content) ==
    IF format_type = "csv" THEN Tail(content)
    ELSE [i \in DOMAIN content |->
            <<content[i].name, content[i].codec, content[i].path>>]

Listed == call.op = "list_files_by_codec" /\ call.raised = "none"
Exported == call.op = "save_file_list" /\ call.file.written

\* The entries the call in progress has written.
Entries ==
    IF Listed THEN TextEntries(call.stdout, 1, "")
    ELSE FileEntries(call.arg.format_type, call.file.content)

Unfiltered == ~truthy(call.arg.codec_filter)

\* What an item contributes to an export.
Triple(item) ==
    <<dict_get(item, "Name", "Unknown"), Label(item), dict_get(item, "Path", "No path")>>

Count(seq, x) == Cardinality({i \in DOMAIN seq : seq[i] = x})

StatsPairs == {<<e.key, ToString(e.val)>> : e \in Range(codec_stats.value)}

\* C3: the listing and the export give each item the label the statistics
\* give it: without a filter, the groups other than "Unknown" and their sizes
\* are the keys and counts of the statistics, in the text listing and in the
\* exported file; a filtered listing of a counted label totals its count.
C3_SameLabels ==
    /\ (Listed /\ Unfiltered) =>
          {<<l.args[1], l.args[2]>> : l \in
              {l \in Range(call.stdout) :
                 /\ l.fmt = "Codec: {codec} ({len(codec_groups[codec])} files)"
                 /\ l.args[1] # "Unknown"}} = StatsPairs
    /\ ((Listed \/ Exported) /\ Unfiltered) =>
          {<<e[2], ToString(Cardinality({i \in DOMAIN Entries : Entries[i][2] = e[2]}))>> :
              e \in {e \in Range(Entries) : e[2] # "Unknown"}} = StatsPairs
    /\ ((Listed \/ Exported) /\ ~Unfiltered /\ call.arg.codec_filter.v # "Unknown") =>
          Len(Entries) = IF dict_has(codec_stats.value, call.arg.codec_filter.v)
                         THEN dict_at(codec_stats.value, call.arg.codec_filter.v)
                         ELSE 0

C3_Witness ==
    /\ Exported
    /\ Unfiltered
    /\ Len(codec_stats.value) = 2
    /\ codec_stats.items_without_codec = 1
    /\ Len(Entries) = MaxItems

\* C6: what save_results writes to the file is what print_results writes to
\* the console for the same statistics and the same value of detailed.
C6_SameText ==
    (call.op = "save_results" /\ call.file.written) =>
        call.file.content = print_results(codec_stats.value, call.arg.detailed)

\* C7: for empty statistics the console and the file both hold the single
\* line "No video codecs found".
C7_EmptyStats ==
    (Analyzed /\ Len(codec_stats.value) = 0) =>
        /\ call.op = "print_results" =>
              call.stdout = <<line("No video codecs found", <<>>)>>
        /\ (call.op = "save_results" /\ call.file.written) =>
              call.file.content = <<line("No video codecs found", <<>>)>>

Reported ==
    \/ call.op = "print_results"
    \/ call.op = "save_results" /\ call.file.written

ReportText == IF call.op = "print_results" THEN call.stdout ELSE call.file.content

\* The items in every order.
Reorderings(seq) ==
    {[i \in DOMAIN seq |-> seq[p[i]]] : p \in Permutations(DOMAIN seq)}

\* C8 as claimed: the order of the entries of the report is the same for
\* every reordering of the items.
C8_SameOrderForPermutations ==
    call.op = "print_results" =>
        \A q \in Reorderings(items) :
            analyze_codecs(q).raised = "none" =>
                ReportEntries(print_results(analyze_codecs(q).value, call.arg.detailed))
                    = ReportEntries(call.stdout)

\* C8: the report has one entry for each key of the statistics, in
\* non-increasing order of count, and entries of equal count in the order in
\* which their labels first occur in the item sequence.
C8_CountThenFirstSeen ==
    Reported =>
        LET es == ReportEntries(ReportText)
            count(e) == dict_at(codec_stats.value, e.args[2])
            first(e) == Min(C5_Labelled(e.args[2]))
        IN /\ Len(es) = Len(codec_stats.value)
           /\ \A i \in DOMAIN es : <<es[i].args[2], es[i].args[1]>> \in StatsPairs
           /\ \A i \in DOMAIN es : i < Len(es) =>
                \/ count(es[i]) > count(es[i + 1])
                \/ count(es[i]) = count(es[i + 1]) /\ first(es[i]) < first(es[i + 1])

C8_Witness ==
    /\ call.op = "print_results"
    /\ LET es == ReportEntries(call.stdout) IN
       /\ Len(es) = 2
       /\ es[1].args[1] = es[2].args[1]
       /\ str_lt(es[2].args[2], es[1].args[2])

\* No item has the label the filter names.
NoGroup == \A i \in DOMAIN items : Label(items[i]) # call.arg.codec_filter.v

\* C9: with a filter that matches no group the call returns, writes no entry
\* and says that nothing was found: the listing prints its "No files found"
\* line, and the export reports something else than a saved file list.
C9_NotFoundSignal ==
    /\ (call.op = "list_files_by_codec" /\ ~Unfiltered /\ NoGroup) =>
          /\ call.raised = "none"
          /\ Entries = <<>>
          /\ \E l \in Range(call.stdout) : l.fmt = "No files found with codec: {codec_filter}"
    /\ (call.op = "save_file_list" /\ ~Unfiltered /\ NoGroup /\ call.arg.open = "ok") =>
          /\ call.file.written
          /\ Entries = <<>>
          /\ \E l \in Range(call.stdout \o call.stderr) :
                l.fmt # "File list saved to {filename} ({format_type.upper()} format)"

\* Ascending by label, and by name among the entries of one label.
C10_Ordered(es) ==
    \A i \in DOMAIN es : i < Len(es) =>
        /\ ~str_lt(es[i + 1][2], es[i][2])
        /\ es[i + 1][2] = es[i][2] => ~str_lt(es[i + 1][1], es[i][1])

\* C10: an export without a filter holds every item once, the groups in
\* ascending order of label and the entries of a group in ascending order of
\* name; an export with a filter holds the items of that label, in ascending
\* order of name; and the text listing, the csv file and the json file hold
\* the same entries in the same order.
C10_ExportOrder ==
    (Listed \/ Exported) =>
        LET triples == [i \in DOMAIN items |-> Triple(items[i])]
            wanted == IF Unfiltered THEN triples
                      ELSE SelectSeq(triples, LAMBDA t : t[2] = call.arg.codec_filter.v)
            listing == list_files_by_codec(items, call.arg.codec_filter)
        IN /\ C10_Ordered(Entries)
           /\ Len(Entries) = Len(wanted)
           /\ \A t \in Range(wanted) \cup Range(Entries) : Count(Entries, t) = Count(wanted, t)
           /\ listing.raised = "none"
           /\ Entries = TextEntries(listing.value, 1, "")
           /\ \A format_type \in {"csv", "json"} :
                Entries = FileEntries(format_type,
                              save_file_list(items, "out", call.arg.codec_filter,
                                             format_type, "ok").file.content)

C10_Witness ==
    /\ Exported
    /\ Unfiltered
    /\ call.arg.format_type = "json"
    /\ Len(Entries) = MaxItems
    /\ Entries[1] = Triple(items[MaxItems])
    /\ Entries[1][2] = Entries[2][2]
    /\ Entries[2][2] # Entries[3][2]

(***************************************************************************)
(* main and interactive_mode                                               *)
(***************************************************************************)
\* C11: in an interactive session no step of interactive_mode itself (reading
\* the input of a prompt, resolving an ordinal) ends the process with an
\* uncaught exception: an invalid ordinal and an EOFError or KeyboardInterrupt
\* at any prompt end the action or the session.
C11_PromptsNeverCrash == ~(pc = "crashed" /\ call.op = "interactive_mode")

\* The connectivity probe failed: main ends right after test_connection.
ProbeFailed == call.op = "test_connection"

\* The fetch gave no item: main or interactive_mode ends right after it.
NoItemsFetched == call.op = "get_all_items" /\ ~truthy(call.value)

\* C12: when main ends, in batch mode or with -i, its exit status is non-zero
\* if the connectivity probe failed or no item was fetched, and zero otherwise.
C12_ExitStatus == pc = "exit" => ((exit_status # 0) <=> (ProbeFailed \/ NoItemsFetched))

\* The session has fetched and analyzed, and is at or after its first menu.
InSession == args.interactive /\ Analyzed

\* The output of a consumer call of the session on the given items and stats.
SessionOutput(items_, stats) ==
    IF call.op = "print_results"
    THEN call.stdout = print_results(stats, call.arg.detailed)
    ELSE IF call.op = "list_files_by_codec" /\ call.raised = "none"
    THEN \E printed \in {<<>>, <<line("\nListing all files by codec...", <<>>)>>} :
            call.stdout = printed \o list_files_by_codec(items_, call.arg.codec_filter).value
    ELSE IF call.op = "save_file_list"
    THEN call.file = save_file_list(items_, call.arg.filename, call.arg.codec_filter,
                                    call.arg.format_type, call.arg.open).file
    ELSE TRUE

\* C13: an interactive session calls get_all_items and analyze_codecs at most
\* once, and exactly once each (with one request for /Items) when it has
\* reached the menu; from then on items is the list fetched at the start,
\* codec_stats the statistics computed from it at the start, and every
\* statistics display, listing and export is computed from these two.
C13_OnceAtStart ==
    args.interactive =>
        /\ counts.get_all_items <= 1
        /\ counts.analyze_codecs <= 1
        /\ InSession =>
            /\ counts.get_all_items = 1
            /\ counts.requests = 1
            /\ counts.analyze_codecs = 1
            /\ items_cache = JList(items)
            /\ codec_stats = analyze_codecs(items_cache.v)
            /\ SessionOutput(items_cache.v, analyze_codecs(items_cache.v).value)

\* A filtered export of a session, four prompts after its start, made with
\* one fetch and one analysis.
C13_Witness ==
    /\ InSession
    /\ call.op = "save_file_list"
    /\ call.file.written
    /\ truthy(call.arg.codec_filter)
    /\ counts.get_all_items = 1
    /\ counts.analyze_codecs = 1

\* The prompts inside an action of the menu.
ActionPrompts ==
    {"codec_prompt", "filename_prompt", "format_prompt", "save_prompt", "save_codec_prompt"}

\* The step reads the Exit choice, or the end of input or an interrupt, at the
\* main menu.
ExitChosen ==
    \/ call'.arg.input.raised # "none"
    \/ strip(call'.arg.input.value) = "6"

\* C14: every step of an interactive session stays inside the action or ends
\* it, and an action that ended is followed by the Idle menu prompt; the
\* session ends only at the main menu, by the Exit choice (or the end of
\* input), and takes no step after that.
C14_ReturnsToIdle ==
    [][InSession =>
        /\ pc = "idle" => \/ pc' \in ActionPrompts \cup {"called"}
                          \/ pc' = "exit" /\ ExitChosen
        /\ pc \in ActionPrompts => pc' \in ActionPrompts \cup {"called"}
        /\ pc = "called" => pc' = "idle"
        /\ pc # "exit"]_vars

\* The numbered lines of the codec menu the prompt stands under, and the
\* stripped text the step reads at it.
MenuLines == Tail(call.stdout)
Typed == strip(call'.arg.input.value)

\* The menu numbers the labels of the statistics 1..n in ascending order, each
\* with its count.
MenuAscending ==
    /\ Len(MenuLines) = Len(codec_stats.value)
    /\ {l.args[2] : l \in Range(MenuLines)} = Range(dict_keys(codec_stats.value))
    /\ \A i \in DOMAIN MenuLines :
          /\ MenuLines[i].args[1] = ToString(i)
          /\ MenuLines[i].args[3] = ToString(dict_at(codec_stats.value, MenuLines[i].args[2]))
          /\ \A j \in DOMAIN MenuLines :
                i < j => str_lt(MenuLines[i].args[2], MenuLines[j].args[2])

\* The step calls the listing or the export with the given label as filter.
Selects(label) ==
    /\ call'.op \in {"list_files_by_codec", "save_file_list"}
    /\ call'.arg.codec_filter = JStr(label)

\* C15: at "Enter codec name or number: " (of the filtered listing and of the
\* export), an integer k in 1..n selects the label the menu shows with number
\* k, the k-th of the labels in ascending order, and the listing that returns
\* or the file that is written holds as many entries as the menu shows beside
\* that label; any other integer prints "Invalid number" and neither lists nor
\* writes; a text that is no integer is passed on as the codec filter.
C15_CodecPrompt ==
    [][(pc \in {"codec_prompt", "save_codec_prompt"} /\ call'.arg.input.raised = "none") =>
        LET k == int(Typed) IN
        /\ MenuAscending
        /\ (k.raised = "none" /\ k.value \in DOMAIN MenuLines) =>
              /\ Selects(MenuLines[k.value].args[2])
              /\ (Listed' \/ Exported') =>
                    ToString(Len(Entries')) = MenuLines[k.value].args[3]
        /\ (k.raised = "none" /\ k.value \notin DOMAIN MenuLines) =>
              /\ call'.op = "interactive_mode"
              /\ call'.stdout = <<line("Invalid number", <<>>)>>
              /\ ~call'.file.written
              /\ pc' = "called"
        /\ k.raised # "none" => Selects(Typed)]_vars

\* The ordinal 1 was typed where the first label in ascending order is not the
\* first label counted, and the listing or the file holds its entries.
C15_Witness ==
    /\ InSession
    /\ call.op \in {"list_files_by_codec", "save_file_list"}
    /\ strip(call.arg.input.value) = "1"
    /\ Len(codec_stats.value) > 1
    /\ call.arg.codec_filter = JStr(sorted_keys(codec_stats.value)[1])
    /\ call.arg.codec_filter # JStr(dict_keys(codec_stats.value)[1])
    /\ Listed \/ Exported
    /\ Len(Entries) > 0

Compared == call.op = "jellyfin_codec_analyzer.analyze_codecs"

\* C17: on the same items, analyze_codecs of jellyfin_codec_analyzer.py and
\* analyze_codecs of jellycodec.py either raise the same exception or return
\* the same mapping (the same labels with the same counts, counted in the same
\* order) with the same two counters and the same warnings.
C17_SameAggregation ==
    Compared =>
        /\ call.raised = codec_stats.raised
        /\ call.raised = "none" =>
              /\ call.value.stats = codec_stats.value
              /\ call.value.items_without_streams = codec_stats.items_without_streams
              /\ call.value.items_without_codec = codec_stats.items_without_codec
              /\ call.stderr = codec_stats.stderr

\* Both have counted Video streams without a Codec and with a case variant of
\* "unknown" under the label "UNKNOWN", next to an item without a Video stream.
C17_Witness ==
    /\ Compared
    /\ call.raised = "none"
    /\ \E i \in DOMAIN items : ~NoStreams(items[i]) /\ VideoPositions(items[i]) # {}
                               /\ "Codec" \notin DOMAIN FirstVideo(items[i])
    /\ \E i \in DOMAIN items : ~NoStreams(items[i]) /\ VideoPositions(items[i]) # {}
                               /\ "Codec" \in DOMAIN FirstVideo(items[i])
                               /\ FirstVideo(items[i]).Codec = JStr("Unknown")
    /\ dict_has(call.value.stats, "UNKNOWN")
    /\ dict_at(call.value.stats, "UNKNOWN") = 2
    /\ call.value.items_without_codec = 1

(***************************************************************************)
(* items_cache                                                             *)
(***************************************************************************)
\* A fetch succeeds with a 200 response whose body is a JSON object with a
\* list of items, or without "Items", which stands for the empty list.
FetchSucceeds(response) ==
    /\ response.error = "none"
    /\ response.status_code = 200
    /\ response.body.t = "object"
    /\ "Items" \in DOMAIN response.body.v => response.body.v.Items.t = "list"

ItemList(response) ==
    IF "Items" \in DOMAIN response.body.v THEN response.body.v.Items ELSE JList(<<>>)

\* A fetch fails with an exception of requests.get, a status other than 200,
\* or a body that is no JSON object.
FetchFails(response) ==
    \/ response.error # "none"
    \/ response.status_code # 200
    \/ response.body.t # "object"

\* C18: a call of get_all_items with the cache set returns the cached list,
\* the empty one too, makes no request and leaves the cache as it is; a call
\* with the cache unset makes one request: if the fetch succeeds, the list of
\* the response is returned and becomes the cache; if it fails, the call
\* returns [], raises nothing and leaves the cache unset, so that the next
\* call makes a request again.  (A 200 response with "Items": null is neither:
\* None is returned and the cache stays unset.)
C18_CacheOnSuccess ==
    [][(pc = "idle" /\ call'.op = "get_all_items") =>
        LET response == call'.arg.response IN
        /\ call'.raised = "none"
        /\ items_cache # JNull =>
              /\ call'.value = items_cache
              /\ items_cache' = items_cache
              /\ counts'.requests = counts.requests
        /\ items_cache = JNull =>
              /\ counts'.requests = counts.requests + 1
              /\ FetchSucceeds(response) =>
                    /\ call'.value = ItemList(response)
                    /\ items_cache' = ItemList(response)
              /\ FetchFails(response) =>
                    /\ call'.value = JList(<<>>)
                    /\ items_cache' = JNull
              /\ (~FetchSucceeds(response) /\ ~FetchFails(response)) =>
                    /\ call'.value = JNull
                    /\ items_cache' = JNull]_vars

\* The third call returned the cached empty list without a request, after a
\* failed fetch and a successful fetch of an empty list.
C18_Witness ==
    /\ pc = "called"
    /\ call.op = "get_all_items"
    /\ call.arg.response = NoRequest
    /\ call.arg.items_cache = JList(<<>>)
    /\ call.value = JList(<<>>)
    /\ counts.get_all_items = 3
    /\ counts.requests = 2

====
